---- MODULE Spec2Model ----
(***************************************************************************)
(* Market Analyzer Pro (src/app.py): a Streamlit script.  Every user       *)
(* interaction re-runs the script from the top; st.session_state and the   *)
(* widget values survive between runs, everything else is recomputed.      *)
(*                                                                         *)
(* One script run is modelled as a sequence of steps, split at the calls   *)
(* to the outside world (the market-data provider and the classifier),     *)
(* whose outcomes are the inputs of the model.  pc is the position of the  *)
(* running script.                                                         *)
(***************************************************************************)
EXTENDS Integers, Sequences, FiniteSets, TLC

(***************************************************************************)
(* Bounds of the model.                                                    *)
(***************************************************************************)
\* longest price series the provider returns
MaxBars == 2
\* longest news feed the provider returns
MaxNews == 3
\* upper end of the "Analysis Depth" slider.  The source's slider runs from
\* 5 to 50; the model's runs from 1 to MaxArticles so that a feed of MaxNews
\* items is both shorter and longer than the limit.
MaxArticles == 2

Null == "None"

(***************************************************************************)
(* Ticker lists (src/app.py 126-137).  Two of the 32 STOCKS entries and    *)
(* one of the 5 INDICES entries are kept; the code treats all alike.       *)
(***************************************************************************)
INDICES == ("Nifty 50" :> "^NSEI")

STOCKS == ("Infosys" :> "INFY.NS") @@ ("TCS" :> "TCS.NS")

AssetClasses == {"Equities (Stocks)", "Indices (Market View)", "Derivatives (Options)"}

current_list(asset) == IF asset = "Indices (Market View)" THEN INDICES ELSE STOCKS

\* sorted(list(current_list.keys()))
sorted_keys(asset) ==
    IF asset = "Indices (Market View)" THEN <<"Nifty 50">> ELSE <<"Infosys", "TCS">>

\* what the user can type into the text input
TickerTexts == {"", "irfc.ns"}

\* str.upper()
upper(s) == IF s = "irfc.ns" THEN "IRFC.NS" ELSE s

SliderRange == 1..MaxArticles

(***************************************************************************)
(* Price data.  A bar keeps the two columns the metrics read from both     *)
(* ends of the series (Open and Close).                                    *)
(***************************************************************************)
Bars == {[open |-> 1, close |-> 2], [open |-> 2, close |-> 1]}

Histories == UNION {[1..n -> Bars] : n \in 0..MaxBars}

\* what stock.history(period="6mo") does: raise, or return a series
HistoryOutcomes ==
    {[raised |-> TRUE, bars |-> <<>>]} \cup {[raised |-> FALSE, bars |-> h] : h \in Histories}

\* get_price_history: the except clause turns a raise into an empty frame
get_price_history(outcome) == IF outcome.raised THEN <<>> ELSE outcome.bars

\* DataFrame.empty
empty_always_false(df) == FALSE

empty(df) == Len(df) = 0

\* lines 176 and 270: the tabs, or the one error message
price_branch(h) == IF ~empty(h) THEN "tabs" ELSE "could_not_fetch"

NoMetrics == [computed |-> FALSE, current |-> 0, prev_close |-> 0, change |-> 0, pct_change |-> 0]

\* lines 180-183; the prices of Bars make the percentage an integer
price_metrics(h) ==
    LET current == h[Len(h)].close
        prev_close == h[Len(h) - 1].close
        change == current - prev_close
    IN  [computed |-> TRUE, current |-> current, prev_close |-> prev_close,
         change |-> change, pct_change |-> (change * 100) \div prev_close]

(***************************************************************************)
(* Heatmap sectors (src/app.py 286-291): two of the four sectors, two of   *)
(* the three stocks of each.                                               *)
(***************************************************************************)
sector_map ==
    << [sector |-> "Nifty Bank", stocks |-> <<"HDFCBANK.NS", "SBIN.NS">>],
       [sector |-> "Nifty IT", stocks |-> <<"TCS.NS", "INFY.NS">>] >>

\* s.replace(".NS", "")
strip_ns(s) ==
    CASE s = "HDFCBANK.NS" -> "HDFCBANK"
      [] s = "SBIN.NS" -> "SBIN"
      [] s = "TCS.NS" -> "TCS"
      [] s = "INFY.NS" -> "INFY"
      [] OTHER -> s

abs(x) == IF x < 0 THEN -x ELSE x

\* line 299-300; Size is kept in tenths (abs(change) + 0.1)
heat_row(s, sector, s_data) ==
    LET change == ((s_data[Len(s_data)].close - s_data[1].open) * 100) \div s_data[1].open
    IN  [Label |-> strip_ns(s), Parent |-> sector, Performance |-> change,
         Size10 |-> abs(change) * 10 + 1]

\* line 295
sector_row(sector) == [Label |-> sector, Parent |-> "Market", Performance |-> 0, Size10 |-> 0]

(***************************************************************************)
(* News items and the classifier.  An article is the provider's dict: it   *)
(* may lack 'content'; its content may lack 'summary' (or hold None or     *)
(* ""), and may lack 'title'.                                              *)
(***************************************************************************)
Articles ==
    {[content |-> FALSE, summary |-> Null, title |-> Null]} \cup
    {[content |-> TRUE, summary |-> s, title |-> "t"] : s \in {Null, "", "s"}} \cup
    {[content |-> TRUE, summary |-> "s", title |-> Null]}

NewsLists == UNION {[1..n -> Articles] : n \in 0..MaxNews}

\* what stock_obj.news does
NewsOutcomes ==
    {[raised |-> TRUE, items |-> <<>>]} \cup {[raised |-> FALSE, items |-> l] : l \in NewsLists}

Labels == {"positive", "negative", "neutral"}

\* confidence, in percent
Scores == {60, 90}

\* what pipe(text)[0] does
ClassifierOutcomes ==
    {[raised |-> TRUE, label |-> "", score |-> 0]} \cup
    {[raised |-> FALSE, label |-> l, score |-> c] : l \in Labels, c \in Scores}

\* news[:num_articles]
slice(news, n) == SubSeq(news, 1, IF n < Len(news) THEN n ELSE Len(news))

\* story = art.get('content', {}); story.get('summary') is truthy
has_summary(art) == art.content /\ art.summary # Null /\ art.summary # ""

count_label(rs, l) == Cardinality({k \in 1..Len(rs) : rs[k].label = l})

sum_scores(rs, l) ==
    LET S[k \in 0..Len(rs)] ==
            IF k = 0 THEN 0 ELSE S[k - 1] + (IF rs[k].label = l THEN rs[k].score ELSE 0)
    IN  S[Len(rs)]

\* a mood weighted by confidence
market_mood_weighted(rs) ==
    [kind |-> "mood", pos |-> count_label(rs, "positive"), neg |-> count_label(rs, "negative"),
     mood |-> IF sum_scores(rs, "positive") > sum_scores(rs, "negative")
              THEN "BULLISH" ELSE "BEARISH"]

\* lines 216-222
market_mood(rs) ==
    LET pos == count_label(rs, "positive")
        neg == count_label(rs, "negative")
    IN  [kind |-> "mood", pos |-> pos, neg |-> neg,
         mood |-> IF pos > neg THEN "BULLISH" ELSE "BEARISH"]

(***************************************************************************)
(* Fundamentals.  A provider value is None or a number; a rendered value   *)
(* is a text with a number.  Amounts are in thousands of rupees.           *)
(***************************************************************************)
\* fields of stock.info that do not enter the result, at most
MaxOtherFields == 3

None == [null |-> TRUE, text |-> "None", num |-> 0]

Num(n) == [null |-> FALSE, text |-> "", num |-> n]

Text(t, n) == [null |-> FALSE, text |-> t, num |-> n]

InfoKeys == {"marketCap", "trailingPE", "dividendYield", "heldPercentInstitutions"}

InfoValue(k) ==
    CASE k = "marketCap" -> Num(7000)
      [] k = "trailingPE" -> Num(9)
      [] k = "dividendYield" -> Num(2)
      [] OTHER -> Num(40)

\* stock.info: each key absent, holding None, or holding its value
InfoBags == [fields : [InfoKeys -> {"absent", "none", "value"}], other : 0..MaxOtherFields]

InfoOutcomes ==
    {[raised |-> TRUE, info |-> [fields |-> [k \in InfoKeys |-> "absent"], other |-> 0]]} \cup
    {[raised |-> FALSE, info |-> b] : b \in InfoBags}

\* len(info)
len_info(info) == Cardinality({k \in InfoKeys : info.fields[k] # "absent"}) + info.other

\* info.get(key, default)
info_get(info, k, default) ==
    CASE info.fields[k] = "absent" -> default
      [] info.fields[k] = "none" -> None
      [] OTHER -> InfoValue(k)

\* info and len(info) >= 5
info_is_rich_from_5(info) == len_info(info) # 0 /\ len_info(info) >= 5

\* info and len(info) > 5
info_is_rich(info) == len_info(info) # 0 /\ len_info(info) > 5

\* formatting None with ":," and multiplying None by 100 raise TypeError
pro_raises(info) ==
    \/ info_get(info, "marketCap", Num(0)).null
    \/ info_get(info, "heldPercentInstitutions", Num(0)).null

\* lines 85-97: mcap and inst stand for the fields built the same way
pro_data(info) ==
    [status |-> "Pro",
     mcap |-> Text("Rs", info_get(info, "marketCap", Num(0)).num),
     pe |-> info_get(info, "trailingPE", Text("N/A", 0)),
     div |-> IF ~info_get(info, "dividendYield", Num(0)).null
                /\ info_get(info, "dividendYield", Num(0)).num # 0
             THEN Text("%", info_get(info, "dividendYield", Num(0)).num * 100)
             ELSE Text("0%", 0),
     vol |-> Text("", 0),
     inst |-> Num(info_get(info, "heldPercentInstitutions", Num(0)).num * 100)]

\* stock.fast_info: market_cap and last_volume each None or a number
FastBags == [market_cap : {None, Num(250), Num(3)}, last_volume : {None, Num(1000)}]

FastOutcomes ==
    {[raised |-> TRUE, fast |-> [market_cap |-> None, last_volume |-> None]]} \cup
    {[raised |-> FALSE, fast |-> b] : b \in FastBags}

\* format_currency, on amounts in thousands: 1e12, 1e9, 1e7, 1e5 rupees are
\* 1e9, 1e6, 1e4, 100 thousands; the number is the two-decimal mantissa in hundredths
format_currency(value) ==
    CASE value.null -> value
      [] value.num >= 1000000000 -> Text("T", value.num \div 10000000)
      [] value.num >= 1000000 -> Text("B", value.num \div 10000)
      [] value.num >= 10000 -> Text("Cr", value.num \div 100)
      [] value.num >= 100 -> Text("L", value.num)
      [] OTHER -> Text("Rs", value.num * 100000)

\* formatting None with ":," raises TypeError
lite_raises(fast) == fast.last_volume.null

\* lines 103-113
lite_data(fast) ==
    [status |-> "Lite",
     mcap |-> format_currency(fast.market_cap),
     pe |-> Text("N/A (Lite)", 0),
     div |-> Text("N/A", 0),
     vol |-> Text("", fast.last_volume.num),
     inst |-> Num(0)]

\* return None
NoneData == [status |-> "None", mcap |-> None, pe |-> None, div |-> None, vol |-> None,
             inst |-> None]

\* what a provider call of get_fundamental_info did: its result, the number
\* of fields it returned, and whether the record could be built from it
NotCalled == [result |-> "not_called", len |-> 0, build |-> "not_tried"]

\* no call made yet
NoData == [status |-> "not_fetched", mcap |-> None, pe |-> None, div |-> None, vol |-> None,
           inst |-> None]

VARIABLES
    \* st.session_state
    favorites, manual_ticker, run_analysis,
    \* widget values
    asset_class, dropdown_name, ticker_input, num_articles,
    \* the buttons' return values in the current run
    analyze_btn, fav_btn,
    \* the running script
    pc, final_ticker,
    \* welcome screen
    fav_buttons, heat_pos, heat_results, heat_data,
    \* Price Dynamics tab
    price_fetch, price_ticker, history, price_panel, metrics,
    \* AI Sentiment tab
    news_fetch, articles_to_process, i, results, invoked, failed_at, sentiment,
    \* Fundamentals tab
    info_calls, fast_calls, full_call, light_call, data, fund_panel

session == <<favorites, manual_ticker, run_analysis>>
widgets == <<asset_class, dropdown_name, ticker_input, num_articles>>
buttons == <<analyze_btn, fav_btn>>
welcome_vars == <<fav_buttons, heat_pos, heat_results, heat_data>>
price_vars == <<price_fetch, price_ticker, history, price_panel, metrics>>
news_vars == <<news_fetch, articles_to_process, i, results, invoked, failed_at, sentiment>>
fund_vars == <<info_calls, fast_calls, full_call, light_call, data, fund_panel>>
vars == <<session, widgets, buttons, pc, final_ticker, welcome_vars, price_vars, news_vars,
          fund_vars>>

NoSentiment == [kind |-> "not_rendered", pos |-> 0, neg |-> 0, mood |-> ""]

(***************************************************************************)
(* The state a new script run starts from: the page is cleared and the     *)
(* script's locals do not exist yet.                                       *)
(***************************************************************************)
FreshRun ==
    /\ pc' = "sidebar"
    /\ final_ticker' = ""
    /\ fav_buttons' = <<>>
    /\ heat_pos' = <<1, 1>>
    /\ heat_results' = <<>>
    /\ heat_data' = <<>>
    /\ price_fetch' = "not_called"
    /\ price_ticker' = ""
    /\ history' = <<>>
    /\ price_panel' = "not_rendered"
    /\ metrics' = NoMetrics
    /\ news_fetch' = "not_called"
    /\ articles_to_process' = <<>>
    /\ i' = 0
    /\ results' = <<>>
    /\ invoked' = <<>>
    /\ failed_at' = 0
    /\ sentiment' = NoSentiment
    /\ info_calls' = 0
    /\ fast_calls' = 0
    /\ full_call' = NotCalled
    /\ light_call' = NotCalled
    /\ data' = NoData
    /\ fund_panel' = "not_rendered"

\* lines 12-14 and the widgets' defaults; the first run is about to start
Init ==
    /\ favorites = <<>>
    /\ manual_ticker = ""
    /\ run_analysis = FALSE
    /\ asset_class = "Equities (Stocks)"
    /\ dropdown_name = sorted_keys("Equities (Stocks)")[1]
    /\ ticker_input = ""
    /\ num_articles = MaxArticles
    /\ analyze_btn = FALSE
    /\ fav_btn = FALSE
    /\ pc = "sidebar"
    /\ final_ticker = ""
    /\ fav_buttons = <<>>
    /\ heat_pos = <<1, 1>>
    /\ heat_results = <<>>
    /\ heat_data = <<>>
    /\ price_fetch = "not_called"
    /\ price_ticker = ""
    /\ history = <<>>
    /\ price_panel = "not_rendered"
    /\ metrics = NoMetrics
    /\ news_fetch = "not_called"
    /\ articles_to_process = <<>>
    /\ i = 0
    /\ results = <<>>
    /\ invoked = <<>>
    /\ failed_at = 0
    /\ sentiment = NoSentiment
    /\ info_calls = 0
    /\ fast_calls = 0
    /\ full_call = NotCalled
    /\ light_call = NotCalled
    /\ data = NoData
    /\ fund_panel = "not_rendered"

(***************************************************************************)
(* User interactions.  Each one stops the running script, if any, and      *)
(* starts a new run; a button returns True in that run only.  The model    *)
(* delivers an interaction once the run has passed line 171, where it      *)
(* takes its branch: every run that starts gets that far.                  *)
(***************************************************************************)
Interactive == pc \notin {"sidebar", "main"}

\* line 163: "Execute Analysis" pressed
PressExecute ==
    /\ Interactive
    /\ analyze_btn' = TRUE
    /\ fav_btn' = FALSE
    /\ FreshRun
    /\ UNCHANGED <<session, widgets>>

\* line 154: "Add/Remove Favorite" pressed
PressFavorite ==
    /\ Interactive
    /\ analyze_btn' = FALSE
    /\ fav_btn' = TRUE
    /\ FreshRun
    /\ UNCHANGED <<session, widgets>>

\* line 162: the slider moved
SetSlider(n) ==
    /\ Interactive
    /\ n # num_articles
    /\ num_articles' = n
    /\ analyze_btn' = FALSE
    /\ fav_btn' = FALSE
    /\ FreshRun
    /\ UNCHANGED <<session, asset_class, dropdown_name, ticker_input>>

\* line 148: text typed into (or cleared from) the ticker input
TypeTicker(t) ==
    /\ Interactive
    /\ t # ticker_input
    /\ ticker_input' = t
    /\ analyze_btn' = FALSE
    /\ fav_btn' = FALSE
    /\ FreshRun
    /\ UNCHANGED <<session, asset_class, dropdown_name, num_articles>>

\* lines 142-146: an asset class and an entry of its list chosen
SelectFromList(asset, name) ==
    /\ Interactive
    /\ name \in DOMAIN current_list(asset)
    /\ <<asset, name>> # <<asset_class, dropdown_name>>
    /\ asset_class' = asset
    /\ dropdown_name' = name
    /\ analyze_btn' = FALSE
    /\ fav_btn' = FALSE
    /\ FreshRun
    /\ UNCHANGED <<session, ticker_input, num_articles>>

\* lines 16-18
select_favorite(ticker) ==
    /\ manual_ticker' = ticker
    /\ run_analysis' = TRUE

\* line 281: an "Analyze <fav>" button of the welcome screen clicked: its
\* on_click callback runs, then the script is re-run
ClickFavorite(k) ==
    /\ Interactive
    /\ k \in 1..Len(fav_buttons)
    /\ select_favorite(fav_buttons[k])
    /\ analyze_btn' = FALSE
    /\ fav_btn' = FALSE
    /\ FreshRun
    /\ UNCHANGED <<favorites, widgets>>

(***************************************************************************)
(* The script.                                                             *)
(***************************************************************************)
\* line 149
FinalTicker ==
    IF ticker_input # "" THEN upper(ticker_input) ELSE current_list(asset_class)[dropdown_name]

\* list.remove: the first occurrence
remove(seq, x) ==
    LET k == CHOOSE j \in 1..Len(seq) : seq[j] = x /\ \A m \in 1..(j - 1) : seq[m] # x
    IN  SubSeq(seq, 1, k - 1) \o SubSeq(seq, k + 1, Len(seq))

\* lines 140-163
Sidebar ==
    /\ pc = "sidebar"
    /\ final_ticker' = FinalTicker
    /\ IF fav_btn
       THEN IF \E k \in 1..Len(favorites) : favorites[k] = FinalTicker
            THEN favorites' = remove(favorites, FinalTicker)
            ELSE favorites' = Append(favorites, FinalTicker)
       ELSE favorites' = favorites
    /\ pc' = "main"
    /\ UNCHANGED <<manual_ticker, run_analysis, widgets, buttons, welcome_vars, price_vars,
                   news_vars, fund_vars>>

\* lines 171-172 and 272
Main ==
    /\ pc = "main"
    /\ IF analyze_btn \/ run_analysis
       THEN /\ run_analysis' = FALSE
            /\ pc' = "price"
       ELSE /\ run_analysis' = run_analysis
            /\ pc' = "welcome"
    /\ UNCHANGED <<favorites, manual_ticker, widgets, buttons, final_ticker, welcome_vars,
                   price_vars, news_vars, fund_vars>>

\* lines 174-177 and 270
FetchPrice ==
    /\ pc = "price"
    /\ \E outcome \in HistoryOutcomes :
          /\ price_fetch' = IF outcome.raised THEN "raised" ELSE "returned"
          /\ history' = get_price_history(outcome)
    /\ price_ticker' = final_ticker
    /\ price_panel' = price_branch(history')
    /\ pc' = IF price_branch(history') = "tabs" THEN "price_tab" ELSE "done"
    /\ UNCHANGED <<session, widgets, buttons, final_ticker, welcome_vars, metrics, news_vars,
                   fund_vars>>

\* lines 179-196; iloc[-1] and iloc[-2] raise IndexError on a shorter series,
\* and nothing catches it
PriceTab ==
    /\ pc = "price_tab"
    /\ IF Len(history) < 2
       THEN /\ pc' = "crashed"
            /\ UNCHANGED metrics
       ELSE /\ metrics' = price_metrics(history)
            /\ pc' = "news"
    /\ UNCHANGED <<session, widgets, buttons, final_ticker, welcome_vars, price_fetch,
                   price_ticker, history, price_panel, news_vars, fund_vars>>

\* the handler of line 230
NewsUnavailable == [kind |-> "unavailable", pos |-> 0, neg |-> 0, mood |-> ""]

\* lines 199-205 and 229-230
FetchNews ==
    /\ pc = "news"
    /\ \E outcome \in NewsOutcomes :
          IF outcome.raised
          THEN /\ news_fetch' = "raised"
               /\ sentiment' = NewsUnavailable
               /\ pc' = "fund"
               /\ UNCHANGED <<articles_to_process, i>>
          ELSE IF outcome.items = <<>>
          THEN /\ news_fetch' = "returned"
               /\ sentiment' = [kind |-> "no_news", pos |-> 0, neg |-> 0, mood |-> ""]
               /\ pc' = "fund"
               /\ UNCHANGED <<articles_to_process, i>>
          ELSE /\ news_fetch' = "returned"
               /\ articles_to_process' = slice(outcome.items, num_articles)
               /\ i' = 1
               /\ pc' = "classify"
               /\ UNCHANGED sentiment
    /\ UNCHANGED <<session, widgets, buttons, final_ticker, welcome_vars, price_vars, results,
                   invoked, failed_at, fund_vars>>

\* lines 207-210, an article without a usable summary
ClassifySkip ==
    /\ pc = "classify"
    /\ i <= Len(articles_to_process)
    /\ ~has_summary(articles_to_process[i])
    /\ i' = i + 1
    /\ UNCHANGED <<session, widgets, buttons, pc, final_ticker, welcome_vars, price_vars,
                   news_fetch, articles_to_process, results, invoked, failed_at, sentiment,
                   fund_vars>>

\* lines 207-212 and 230, an article with a summary: the classifier is
\* called; a raise of it, or the KeyError of a missing title, ends in the
\* handler of line 230
ClassifyArticle ==
    /\ pc = "classify"
    /\ i <= Len(articles_to_process)
    /\ has_summary(articles_to_process[i])
    /\ invoked' = Append(invoked, i)
    /\ \E res \in ClassifierOutcomes :
          IF res.raised
          THEN /\ failed_at' = i
               /\ sentiment' = NewsUnavailable
               /\ pc' = "fund"
               /\ UNCHANGED <<i, results>>
          ELSE IF articles_to_process[i].title = Null
          THEN /\ sentiment' = NewsUnavailable
               /\ pc' = "fund"
               /\ UNCHANGED <<i, results, failed_at>>
          ELSE /\ results' = Append(results, [title |-> articles_to_process[i].title,
                                               label |-> res.label, score |-> res.score])
               /\ i' = i + 1
               /\ UNCHANGED <<pc, sentiment, failed_at>>
    /\ UNCHANGED <<session, widgets, buttons, final_ticker, welcome_vars, price_vars,
                   news_fetch, articles_to_process, fund_vars>>

\* lines 213-228: the loop is over
Aggregate ==
    /\ pc = "classify"
    /\ i > Len(articles_to_process)
    /\ IF results # <<>>
       THEN sentiment' = market_mood(results)
       ELSE sentiment' = [kind |-> "blank", pos |-> 0, neg |-> 0, mood |-> ""]
    /\ pc' = "fund"
    /\ UNCHANGED <<session, widgets, buttons, final_ticker, welcome_vars, price_vars,
                   news_fetch, articles_to_process, i, results, invoked, failed_at, fund_vars>>

\* lines 236-268
fundamentals_panel(d) ==
    IF d.status = "None" THEN "unavailable"
    ELSE IF d.status = "Pro" THEN "pro" ELSE "lite"

\* lines 232-234, get_fundamental_info lines 80-98, and the tab when it returns
\* (st.cache_data replays an earlier return value for the same ticker; the
\* steps here are a call that runs the function's body)
FundFull ==
    /\ pc = "fund"
    /\ info_calls' = info_calls + 1
    /\ \E outcome \in InfoOutcomes :
          IF outcome.raised
          THEN /\ full_call' = [result |-> "raised", len |-> 0, build |-> "not_tried"]
               /\ pc' = "fund_lite"
               /\ UNCHANGED <<data, fund_panel>>
          ELSE IF ~info_is_rich(outcome.info)
          THEN /\ full_call' = [result |-> "returned", len |-> len_info(outcome.info),
                                build |-> "not_tried"]
               /\ pc' = "fund_lite"
               /\ UNCHANGED <<data, fund_panel>>
          ELSE IF pro_raises(outcome.info)
          THEN /\ full_call' = [result |-> "returned", len |-> len_info(outcome.info),
                                build |-> "raised"]
               /\ pc' = "fund_lite"
               /\ UNCHANGED <<data, fund_panel>>
          ELSE /\ full_call' = [result |-> "returned", len |-> len_info(outcome.info),
                                build |-> "built"]
               /\ data' = pro_data(outcome.info)
               /\ fund_panel' = fundamentals_panel(data')
               /\ pc' = "done"
    /\ UNCHANGED <<session, widgets, buttons, final_ticker, welcome_vars, price_vars, news_vars,
                   fast_calls, light_call>>

\* get_fundamental_info lines 100-114, and the tab (lines 236-269)
FundLite ==
    /\ pc = "fund_lite"
    /\ fast_calls' = fast_calls + 1
    /\ \E outcome \in FastOutcomes :
          IF outcome.raised
          THEN /\ light_call' = [result |-> "raised", len |-> 0, build |-> "not_tried"]
               /\ data' = NoneData
          ELSE IF lite_raises(outcome.fast)
          THEN /\ light_call' = [result |-> "returned", len |-> 2, build |-> "raised"]
               /\ data' = NoneData
          ELSE /\ light_call' = [result |-> "returned", len |-> 2, build |-> "built"]
               /\ data' = lite_data(outcome.fast)
    /\ fund_panel' = fundamentals_panel(data')
    /\ pc' = "done"
    /\ UNCHANGED <<session, widgets, buttons, final_ticker, welcome_vars, price_vars, news_vars,
                   info_calls, full_call>>

\* lines 277-282
WelcomeFavorites ==
    /\ pc = "welcome"
    /\ fav_buttons' = favorites
    /\ pc' = "heatmap"
    /\ UNCHANGED <<session, widgets, buttons, final_ticker, heat_pos, heat_results, heat_data,
                   price_vars, news_vars, fund_vars>>

\* lines 293-301, one stock of one sector: the sector's own row is appended
\* before its first stock.  Reading a bar of an empty frame raises
\* IndexError, which line 301 answers by leaving the sector.
HeatStock ==
    /\ pc = "heatmap"
    /\ LET sec == heat_pos[1]
           k == heat_pos[2]
           entry == sector_map[sec]
           s == entry.stocks[k]
           rows == IF k = 1 THEN Append(heat_results, sector_row(entry.sector))
                   ELSE heat_results
           next_sector == /\ heat_pos' = <<sec + 1, 1>>
                          /\ pc' = IF sec = Len(sector_map) THEN "done" ELSE "heatmap"
       IN  \E outcome \in HistoryOutcomes :
              LET s_data == get_price_history(outcome)
              IN  /\ heat_data' = Append(heat_data, [stock |-> s, bars |-> s_data])
                  /\ IF ~empty(s_data)
                     THEN IF Len(s_data) = 0
                          THEN /\ heat_results' = rows
                               /\ next_sector
                          ELSE /\ heat_results' = Append(rows, heat_row(s, entry.sector, s_data))
                               /\ IF k = Len(entry.stocks)
                                  THEN next_sector
                                  ELSE /\ heat_pos' = <<sec, k + 1>>
                                       /\ pc' = pc
                     ELSE /\ heat_results' = rows
                          /\ IF k = Len(entry.stocks)
                             THEN next_sector
                             ELSE /\ heat_pos' = <<sec, k + 1>>
                                  /\ pc' = pc
    /\ UNCHANGED <<session, widgets, buttons, final_ticker, fav_buttons, price_vars, news_vars,
                   fund_vars>>

\* one analysis or welcome run after another, with the sidebar left as it is
Next ==
    \/ PressExecute
    \/ \E n \in SliderRange : SetSlider(n)
    \/ Sidebar
    \/ Main
    \/ FetchPrice
    \/ PriceTab
    \/ FetchNews
    \/ ClassifySkip
    \/ ClassifyArticle
    \/ Aggregate
    \/ FundFull
    \/ FundLite
    \/ WelcomeFavorites
    \/ HeatStock

Spec == Init /\ [][Next]_vars

\* the session: favourites, the ticker widgets and what a run analyses
NextSession ==
    \/ PressExecute
    \/ PressFavorite
    \/ \E t \in TickerTexts : TypeTicker(t)
    \/ \E a \in AssetClasses : \E n \in DOMAIN current_list(a) : SelectFromList(a, n)
    \/ \E k \in 1..Len(fav_buttons) : ClickFavorite(k)
    \/ Sidebar
    \/ Main
    \/ FetchPrice
    \/ WelcomeFavorites

SpecSession == Init /\ [][NextSession]_vars

(***************************************************************************)
(* The claims.                                                             *)
(***************************************************************************)
\* the news tab of an analysis run is over
NewsTabOver == pc \in {"fund", "fund_lite", "done"} /\ news_fetch # "not_called"

\* the analysis branch has been entered
InAnalysis == pc \in {"price", "price_tab", "news", "classify", "fund", "fund_lite", "crashed"}
              \/ (pc = "done" /\ price_fetch # "not_called")

\* the indices of the articles with a usable summary, in feed order
usable_indices(arts) ==
    LET U[k \in 0..Len(arts)] ==
            IF k = 0 THEN <<>>
            ELSE IF has_summary(arts[k]) THEN Append(U[k - 1], k) ELSE U[k - 1]
    IN  U[Len(arts)]

\* C1: whenever a mood is produced from a batch with as many 'positive' as
\* 'negative' labels, the mood is NEUTRAL.
C1_TieIsNeutral ==
    (sentiment.kind = "mood"
     /\ count_label(results, "positive") = count_label(results, "negative"))
        => sentiment.mood = "NEUTRAL"

\* C2: for a non-empty batch the mood is BULLISH when the positives outnumber
\* the negatives and BEARISH when the negatives outnumber the positives, and
\* it stays the same when any item's confidence is changed, a neutral item is
\* added, or the neutral items are removed.
C2_MoodIsPluralityOfCounts ==
    sentiment.kind = "mood" =>
        /\ results # <<>>
        /\ count_label(results, "positive") > count_label(results, "negative")
              => sentiment.mood = "BULLISH"
        /\ count_label(results, "negative") > count_label(results, "positive")
              => sentiment.mood = "BEARISH"
        /\ \A k \in 1..Len(results) : \A c \in Scores :
              market_mood([results EXCEPT ![k].score = c]).mood = sentiment.mood
        /\ \A c \in Scores :
              market_mood(Append(results, [title |-> "t", label |-> "neutral", score |-> c])).mood
                 = sentiment.mood
        /\ \/ \A k \in 1..Len(results) : results[k].label = "neutral"
           \/ market_mood(SelectSeq(results, LAMBDA r : r.label # "neutral")).mood
                 = sentiment.mood

\* C2's case: a bullish batch with a neutral item and two different confidences
C2_Witness ==
    /\ sentiment.kind = "mood"
    /\ sentiment.mood = "BULLISH"
    /\ Len(results) = 2
    /\ results[1].label = "neutral"
    /\ results[1].score = 90
    /\ results[2].score = 60

\* C3: when an analysis run is over, every panel is rendered whatever the
\* other fetches did: news and fundamentals also after a failed or empty
\* price fetch, price and fundamentals also after a failed news fetch, price
\* and news also when fundamentals are unavailable.
C3_PanelsIndependent ==
    (pc = "done" /\ price_fetch # "not_called") =>
        /\ (price_fetch = "raised" \/ history = <<>>)
              => (sentiment.kind # "not_rendered" /\ fund_panel # "not_rendered")
        /\ news_fetch = "raised"
              => (price_panel = "tabs" /\ metrics.computed /\ fund_panel # "not_rendered")
        /\ fund_panel = "unavailable"
              => (price_panel = "tabs" /\ metrics.computed /\ sentiment.kind # "not_rendered")

\* C4: no analysis run ends in an uncaught exception.
C4_RunNeverCrashes == pc # "crashed"

C6_FailedArticleOnlyDropped ==
    failed_at # 0 =>
        /\ \A k \in 1..Len(articles_to_process) :
              (k # failed_at /\ has_summary(articles_to_process[k]))
                 => \E j \in 1..Len(invoked) : invoked[j] = k
        /\ results # <<>> => sentiment = market_mood(results)

\* C7: the state reached when the price fetch raised differs from the one
\* reached when it returned zero bars, and the state reached when the news
\* fetch raised differs from the one reached when it returned no items.
C7_EmptyDistinctFromFailure ==
    /\ (price_fetch = "raised" /\ pc = "done")
          => price_panel # price_branch(get_price_history([raised |-> FALSE, bars |-> <<>>]))
    /\ (news_fetch = "raised" /\ NewsTabOver) => sentiment.kind # "no_news"
    /\ (news_fetch = "returned" /\ NewsTabOver /\ articles_to_process = <<>>)
          => sentiment.kind = "no_news"

\* C8: when the news tab is over, the classifier has been invoked exactly
\* once on each of the first num_articles items with a non-empty summary, in
\* feed order, and on nothing else; each result stems from such an item.
C8_ClassifierOncePerUsableItem ==
    (NewsTabOver /\ news_fetch = "returned") =>
        /\ Len(articles_to_process) <= num_articles
        /\ invoked = usable_indices(articles_to_process)
        /\ Len(results) <= Len(invoked)

\* C9: an empty price series never has a metric computed from it: the
\* analysis run ends at once in the "could not fetch" state with no metric
\* and no exception, and the heatmap has a row for exactly the stocks whose
\* series is not empty, going on to the next stock after an empty one.
C9_EmptySeriesNoMetrics ==
    /\ (price_fetch # "not_called" /\ history = <<>>)
          => (pc = "done" /\ metrics = NoMetrics /\ price_panel = "could_not_fetch")
    /\ metrics.computed => history # <<>>
    /\ \A k \in 1..Len(heat_data) :
          (\E r \in 1..Len(heat_results) : heat_results[r].Label = strip_ns(heat_data[k].stock))
             <=> heat_data[k].bars # <<>>
    /\ (pc = "done" /\ price_fetch = "not_called")
          => Len(heat_data) = Len(sector_map[1].stocks) + Len(sector_map[2].stocks)

\* C9's case: the provider returned zero bars to an analysis run
C9_Witness ==
    /\ price_fetch = "returned"
    /\ history = <<>>
    /\ pc = "done"
    /\ price_panel = "could_not_fetch"

\* C10: in the analysis branch run_analysis is False again, and a run that
\* entered it without the Execute button, hence through select_favorite(t),
\* fetches the prices of t.
C10_FavoriteRunAnalysesFavorite ==
    /\ InAnalysis => ~run_analysis
    /\ (price_fetch # "not_called" /\ ~analyze_btn) => price_ticker = manual_ticker

====
